---- MODULE Spec2Model ----
(***************************************************************************)
(* Annotation state machine of pwa-movie-viewer: the useDrawingState hook  *)
(* (lines, draft, selection, drag session, undo/redo stacks) together with *)
(* the parts of App that drive it (application mode, video selection,      *)
(* metadata load, the save effect) and the IndexedDB store of the drawings *)
(* (one list of lines per video key).                                      *)
(*                                                                         *)
(* Representation.  A normalized coordinate in [0,1] is the integer        *)
(* k in 0..Unit standing for k/Unit.  A line is [id, p1, p2]; the fields   *)
(* `type' and `createdAt' of LineShape are written once and never read by  *)
(* the state machine, so they are left out.  Ids produced by               *)
(* crypto.randomUUID() are the fresh integers 1, 2, ...                    *)
(* Every event handler runs to completion and React re-renders before the  *)
(* next event is dispatched, so a handler is one atomic action that reads  *)
(* the state of the last render.                                           *)
(***************************************************************************)
EXTENDS Integers, Sequences, FiniteSets, TLC

VARIABLES lines, draftLine, selectedId, history, redoStack, editSession,
          appMode, videoUrl, videoBounds, loadPending, nextId, lastOp, evicted,
          redoCleared, steps, videoKey, store, loadRead, probe, answer,
          writes, queued, staleLoads, playing

vars == <<lines, draftLine, selectedId, history, redoStack, editSession,
          appMode, videoUrl, videoBounds, loadPending, nextId, lastOp, evicted,
          redoCleared, steps, videoKey, store, loadRead, probe, answer,
          writes, queued, staleLoads, playing>>

----------------------------------------------------------------------------
(* Bounds of the model *)

\* HISTORY_LIMIT is 50 in the program; the model runs the same code with a
\* smaller cap so that pushes at the cap are reached.
HISTORY_LIMIT == 2

\* number of ids crypto.randomUUID() hands out
MaxIds == 2

\* number of drawing events (pointer events, key presses, Undo, Redo,
\* Delete) in one run
MaxSteps == 7

\* longest line list explored (Redo can append the same line again and again)
MaxLines == 3

\* number of drawing events in one run of ShortSpec
ShortSteps == 5

\* the video files the user picks from, by key: one file, which can be
\* selected any number of times
VideoKeys == {1}

\* two files, for the runs that switch from one video to another
AllKeys == {1, 2}

\* loads of earlier selections still in flight when a file is selected
MaxStale == 1

\* number of drawing events in one run of KeySpec
KeySteps == 3

----------------------------------------------------------------------------
(* Program constants *)

HANDLE_HIT_RADIUS == 32

LINE_HIT_THRESHOLD == 18

\* fixed-point denominator: the coordinate value 1.0
Unit == 2

Null == [null |-> TRUE]

NoId == 0

\* the null DragType
NoTarget == "none"

Max(a, b) == IF a >= b THEN a ELSE b

Min(a, b) == IF a <= b THEN a ELSE b

\* the container's bounding rectangle (getBoundingClientRect)
ContainerRect == [left |-> 0, top |-> 0]

\* the displayed video's rectangle once metadata is known
LoadedBounds == [x |-> 20, y |-> 10, width |-> 200, height |-> 100]

\* pointer events: client position, mouse button, and whether the event
\* target lies inside a button/input/select/textarea
PointerEvents ==
    { [clientX |-> 20,  clientY |-> 10,  button |-> 0, onControl |-> FALSE],
      [clientX |-> 120, clientY |-> 10,  button |-> 0, onControl |-> FALSE],
      [clientX |-> 220, clientY |-> 10,  button |-> 0, onControl |-> FALSE],
      [clientX |-> 5,   clientY |-> 5,   button |-> 0, onControl |-> FALSE],
      [clientX |-> 20,  clientY |-> 10,  button |-> 2, onControl |-> FALSE],
      [clientX |-> 20,  clientY |-> 10,  button |-> 0, onControl |-> TRUE] }

\* id of the line found in the store by a load
SavedId == MaxIds + 1

\* what the store holds under a key when a session starts, and so what
\* loadDrawing may resolve to: null (nothing stored), written
\* [found |-> FALSE], or a list stored by an earlier session
LoadResults ==
    { [found |-> FALSE, lines |-> <<>>],
      [found |-> TRUE,
       lines |-> <<[id |-> SavedId, p1 |-> [x |-> 0, y |-> 0],
                    p2 |-> [x |-> Unit, y |-> 0]]>>] }

\* the null video key; a key stands for the string
\* `${file.name}:${file.size}:${file.lastModified}`
NoKey == 0

\* request.result undefined, resolved as null
NotStored == [found |-> FALSE, lines |-> <<>>]

\* no call of the mapper or the hit tester is being examined
NoProbe == [kind |-> "none"]

\* the examined call has not returned
NoAnswer == [pending |-> TRUE]

----------------------------------------------------------------------------
(* Geometry utilities *)

\* clampPoint with Math.min and Math.max exchanged
clampPointSwapped(p) ==
    [x |-> Min(0, Max(Unit, p.x)), y |-> Min(0, Max(Unit, p.y))]

clampPoint(p) ==
    [x |-> Max(0, Min(Unit, p.x)), y |-> Max(0, Min(Unit, p.y))]

\* pixel coordinate of a normalized coordinate
Px(v, dim) == (v * dim) \div Unit

\* squared pixel distance between two normalized points
PixelDistSq(p, q, width, height) ==
    LET dx == Px(p.x, width) - Px(q.x, width)
        dy == Px(p.y, height) - Px(q.y, height)
    IN  dx * dx + dy * dy

\* the distance to the infinite line through a and b: t is not clamped
distanceToLineSq(p, a, b, width, height) ==
    LET px == Px(p.x, width)
        py == Px(p.y, height)
        ax == Px(a.x, width)
        ay == Px(a.y, height)
        bx == Px(b.x, width)
        by == Px(b.y, height)
        dx == bx - ax
        dy == by - ay
        lenSq == IF dx * dx + dy * dy = 0 THEN 1 ELSE dx * dx + dy * dy
        dot == (px - ax) * dx + (py - ay) * dy
    IN  [num |-> ((px - ax) * (px - ax) + (py - ay) * (py - ay)) * lenSq - dot * dot,
         den |-> lenSq]

\* distanceToSegment squared, as the exact fraction num/den.  With
\* t = tn / lenSq, tn the numerator dot clamped to [0, lenSq], the squared
\* length of p - (a + t * d) is |p - a|^2 - 2 t dot + t^2 lenSq, which is
\* (|p - a|^2 lenSq - tn (2 dot - tn)) / lenSq
distanceToSegmentSq(p, a, b, width, height) ==
    LET px == Px(p.x, width)
        py == Px(p.y, height)
        ax == Px(a.x, width)
        ay == Px(a.y, height)
        bx == Px(b.x, width)
        by == Px(b.y, height)
        dx == bx - ax
        dy == by - ay
        lenSq == IF dx * dx + dy * dy = 0 THEN 1 ELSE dx * dx + dy * dy
        dot == (px - ax) * dx + (py - ay) * dy
        tn == Max(0, Min(lenSq, dot))
    IN  [num |-> ((px - ax) * (px - ax) + (py - ay) * (py - ay)) * lenSq
                    - tn * (2 * dot - tn),
         den |-> lenSq]

\* distanceToSegment(p, a, b, width, height) < limit
distanceToSegmentBelow(p, a, b, width, height, limit) ==
    LET d == distanceToSegmentSq(p, a, b, width, height)
    IN  d.num < limit * limit * d.den

----------------------------------------------------------------------------
(* Coordinate mapper and hit tester *)

\* toNormalizedPoint rejecting the positions on the rectangle's edge
toNormalizedPointExcludingEdges(event, bounds) ==
    IF bounds = Null THEN Null
    ELSE LET withinX == event.clientX - ContainerRect.left
             withinY == event.clientY - ContainerRect.top
         IN  IF \/ withinX <= bounds.x
                \/ withinX >= bounds.x + bounds.width
                \/ withinY <= bounds.y
                \/ withinY >= bounds.y + bounds.height
             THEN Null
             ELSE clampPoint([x |-> ((withinX - bounds.x) * Unit) \div bounds.width,
                              y |-> ((withinY - bounds.y) * Unit) \div bounds.height])

toNormalizedPoint(event, bounds) ==
    IF bounds = Null THEN Null
    ELSE LET withinX == event.clientX - ContainerRect.left
             withinY == event.clientY - ContainerRect.top
         IN  IF \/ withinX < bounds.x
                \/ withinX > bounds.x + bounds.width
                \/ withinY < bounds.y
                \/ withinY > bounds.y + bounds.height
             THEN Null
             ELSE clampPoint([x |-> ((withinX - bounds.x) * Unit) \div bounds.width,
                              y |-> ((withinY - bounds.y) * Unit) \div bounds.height])

\* index of the first line of ls with the given id, 0 when there is none
\* (Array.prototype.find)
FindById(ls, id) ==
    IF \E i \in 1..Len(ls) : ls[i].id = id
    THEN CHOOSE i \in 1..Len(ls) :
            /\ ls[i].id = id
            /\ \A j \in 1..(i - 1) : ls[j].id # id
    ELSE 0

NearHandle(point, q, bounds) ==
    PixelDistSq(point, q, bounds.width, bounds.height)
        < HANDLE_HIT_RADIUS * HANDLE_HIT_RADIUS

HandleHit(point, line, bounds) ==
    NearHandle(point, line.p1, bounds) \/ NearHandle(point, line.p2, bounds)

BodyHit(point, line, bounds) ==
    distanceToSegmentBelow(point, line.p1, line.p2, bounds.width, bounds.height,
                           LINE_HIT_THRESHOLD)

\* findHit testing the line bodies before the handles
findHitBodiesFirst(point, ls, bounds) ==
    IF bounds = Null THEN [line |-> Null, target |-> NoTarget]
    ELSE IF \E i \in 1..Len(ls) : BodyHit(point, ls[i], bounds)
    THEN LET i == CHOOSE k \in 1..Len(ls) :
                     /\ BodyHit(point, ls[k], bounds)
                     /\ \A j \in 1..(k - 1) : ~BodyHit(point, ls[j], bounds)
         IN  [line |-> ls[i], target |-> "move"]
    ELSE IF \E i \in 1..Len(ls) : HandleHit(point, ls[i], bounds)
    THEN LET i == CHOOSE k \in 1..Len(ls) :
                     /\ HandleHit(point, ls[k], bounds)
                     /\ \A j \in 1..(k - 1) : ~HandleHit(point, ls[j], bounds)
         IN  [line |-> ls[i],
              target |-> IF NearHandle(point, ls[i].p1, bounds) THEN "p1" ELSE "p2"]
    ELSE [line |-> Null, target |-> NoTarget]

\* findHit taking the last line whose body is near (findLast for find)
findHitLastBody(point, ls, bounds) ==
    IF bounds = Null THEN [line |-> Null, target |-> NoTarget]
    ELSE IF \E i \in 1..Len(ls) : HandleHit(point, ls[i], bounds)
    THEN LET i == CHOOSE k \in 1..Len(ls) :
                     /\ HandleHit(point, ls[k], bounds)
                     /\ \A j \in 1..(k - 1) : ~HandleHit(point, ls[j], bounds)
         IN  [line |-> ls[i],
              target |-> IF NearHandle(point, ls[i].p1, bounds) THEN "p1" ELSE "p2"]
    ELSE IF \E i \in 1..Len(ls) : BodyHit(point, ls[i], bounds)
    THEN LET i == CHOOSE k \in 1..Len(ls) :
                     /\ BodyHit(point, ls[k], bounds)
                     /\ \A j \in (k + 1)..Len(ls) : ~BodyHit(point, ls[j], bounds)
         IN  [line |-> ls[i], target |-> "move"]
    ELSE [line |-> Null, target |-> NoTarget]

findHit(point, ls, bounds) ==
    IF bounds = Null THEN [line |-> Null, target |-> NoTarget]
    ELSE IF \E i \in 1..Len(ls) : HandleHit(point, ls[i], bounds)
    THEN LET i == CHOOSE k \in 1..Len(ls) :
                     /\ HandleHit(point, ls[k], bounds)
                     /\ \A j \in 1..(k - 1) : ~HandleHit(point, ls[j], bounds)
         IN  [line |-> ls[i],
              target |-> IF NearHandle(point, ls[i].p1, bounds) THEN "p1" ELSE "p2"]
    ELSE IF \E i \in 1..Len(ls) : BodyHit(point, ls[i], bounds)
    THEN LET i == CHOOSE k \in 1..Len(ls) :
                     /\ BodyHit(point, ls[k], bounds)
                     /\ \A j \in 1..(k - 1) : ~BodyHit(point, ls[j], bounds)
         IN  [line |-> ls[i], target |-> "move"]
    ELSE [line |-> Null, target |-> NoTarget]

----------------------------------------------------------------------------
(* The state of one render, as a record the handlers map to the next one.   *)
(* lastOp, evicted and redoCleared record what the last handler did (which *)
(* branch changed the stacks, whether its push dropped an entry at the     *)
(* cap, whether pushHistory emptied a non-empty Redo stack); every handler *)
(* starts from "other", FALSE and FALSE.                                   *)

St ==
    [lines |-> lines, draftLine |-> draftLine, selectedId |-> selectedId,
     history |-> history, redoStack |-> redoStack, editSession |-> editSession,
     appMode |-> appMode, videoUrl |-> videoUrl, videoBounds |-> videoBounds,
     loadPending |-> loadPending, nextId |-> nextId,
     lastOp |-> "other", evicted |-> FALSE, redoCleared |-> FALSE,
     videoKey |-> videoKey, store |-> store, loadRead |-> loadRead,
     writes |-> writes, queued |-> queued, staleLoads |-> staleLoads,
     playing |-> playing]

\* slice(0, n) in place of slice(-n): the newest entries are the ones dropped
SliceFirst(seq, n) ==
    IF Len(seq) <= n THEN seq ELSE SubSeq(seq, 1, n)

\* Array.prototype.slice(-n)
SliceLast(seq, n) ==
    IF Len(seq) <= n THEN seq ELSE SubSeq(seq, Len(seq) - n + 1, Len(seq))

\* [...prev, action] without the slice
PushUnbounded(prev, action) == Append(prev, action)

\* [...prev, action].slice(-HISTORY_LIMIT)
PushBounded(prev, action) == SliceLast(Append(prev, action), HISTORY_LIMIT)

Last(seq) == seq[Len(seq)]

\* Array.prototype.slice(0, -1)
DropLast(seq) == SubSeq(seq, 1, Len(seq) - 1)

\* current.filter((l) => l.id !== id)
RemoveById(ls, id) == SelectSeq(ls, LAMBDA l : l.id # id)

\* current.map((l) => (l.id === id ? repl : l))
ReplaceById(ls, id, repl) ==
    [i \in 1..Len(ls) |-> IF ls[i].id = id THEN repl ELSE ls[i]]

SameCoords(a, b) ==
    /\ a.p1.x = b.p1.x
    /\ a.p1.y = b.p1.y
    /\ a.p2.x = b.p2.x
    /\ a.p2.y = b.p2.y

\* pushHistory without setRedoStack([])
pushHistoryKeepingRedo(s, action) ==
    [s EXCEPT !.history = PushBounded(s.history, action),
              !.evicted = Len(s.history) >= HISTORY_LIMIT]

pushHistory(s, action) ==
    [s EXCEPT !.history = PushBounded(s.history, action),
              !.redoStack = <<>>,
              !.evicted = Len(s.history) >= HISTORY_LIMIT,
              !.redoCleared = s.redoStack # <<>>]

----------------------------------------------------------------------------
(* Pointer handlers of useDrawingState *)

NewSession(line, point, target) ==
    [id |-> line.id, before |-> line, lastPointer |-> point, type |-> target]

\* handlePointerDown starting a draft in the press that deselects
handlePointerDownDraftingOverSelection(s, event) ==
    IF s.appMode # "draw" THEN s
    ELSE IF ~s.videoUrl \/ event.button = 2 THEN s
    ELSE IF event.onControl THEN s
    ELSE
      LET point == toNormalizedPoint(event, s.videoBounds)
          hit == IF point # Null THEN findHit(point, s.lines, s.videoBounds)
                 ELSE [line |-> Null, target |-> NoTarget]
      IN  IF point # Null /\ hit.line # Null
          THEN [s EXCEPT !.selectedId = hit.line.id,
                         !.editSession = IF hit.target # NoTarget
                                         THEN NewSession(hit.line, point, hit.target)
                                         ELSE Null]
          ELSE IF s.selectedId = NoId
          THEN IF point = Null THEN s
               ELSE [s EXCEPT !.draftLine = [id |-> s.nextId, p1 |-> point, p2 |-> point],
                              !.nextId = s.nextId + 1]
          ELSE IF point = Null
          THEN [s EXCEPT !.selectedId = NoId, !.editSession = Null,
                         !.lastOp = "down_deselect"]
          ELSE LET again == findHit(point, s.lines, s.videoBounds)
               IN  IF again.line # Null /\ again.target # NoTarget
                   THEN [s EXCEPT !.selectedId = again.line.id,
                                  !.editSession = NewSession(again.line, point, again.target)]
                   ELSE IF again.line # Null
                   THEN [s EXCEPT !.selectedId = again.line.id]
                   ELSE [s EXCEPT !.selectedId = NoId, !.editSession = Null,
                                  !.draftLine = [id |-> s.nextId, p1 |-> point,
                                                 p2 |-> point],
                                  !.nextId = s.nextId + 1,
                                  !.lastOp = "down_deselect"]

\* lastOp records "down_deselect" when the press clears a selection
handlePointerDown(s, event) ==
    IF s.appMode # "draw" THEN s
    ELSE IF ~s.videoUrl \/ event.button = 2 THEN s
    ELSE IF event.onControl THEN s
    ELSE
      LET point == toNormalizedPoint(event, s.videoBounds)
          hit == IF point # Null THEN findHit(point, s.lines, s.videoBounds)
                 ELSE [line |-> Null, target |-> NoTarget]
      IN  IF point # Null /\ hit.line # Null
          THEN [s EXCEPT !.selectedId = hit.line.id,
                         !.editSession = IF hit.target # NoTarget
                                         THEN NewSession(hit.line, point, hit.target)
                                         ELSE Null]
          ELSE IF s.selectedId = NoId
          THEN IF point = Null THEN s
               ELSE [s EXCEPT !.draftLine = [id |-> s.nextId, p1 |-> point, p2 |-> point],
                              !.nextId = s.nextId + 1]
          ELSE IF point = Null
          THEN [s EXCEPT !.selectedId = NoId, !.editSession = Null,
                         !.lastOp = "down_deselect"]
          ELSE LET again == findHit(point, s.lines, s.videoBounds)
               IN  IF again.line # Null /\ again.target # NoTarget
                   THEN [s EXCEPT !.selectedId = again.line.id,
                                  !.editSession = NewSession(again.line, point, again.target)]
                   ELSE IF again.line # Null
                   THEN [s EXCEPT !.selectedId = again.line.id]
                   ELSE [s EXCEPT !.selectedId = NoId, !.editSession = Null,
                                  !.lastOp = "down_deselect"]

\* the map callback without clampPoint on the shifted endpoints
DraggedLineUnclamped(line, type, point, pointer) ==
    IF type = "move"
    THEN LET delta == [x |-> point.x - pointer.x, y |-> point.y - pointer.y]
         IN  [line EXCEPT !.p1 = [x |-> line.p1.x + delta.x,
                                  y |-> line.p1.y + delta.y],
                          !.p2 = [x |-> line.p2.x + delta.x,
                                  y |-> line.p2.y + delta.y]]
    ELSE IF type = "p1"
    THEN [line EXCEPT !.p1 = point]
    ELSE [line EXCEPT !.p2 = point]

\* the line the map callback returns for a line with the session's id;
\* `pointer' is session.lastPointer as the callback finds it
DraggedLine(line, type, point, pointer) ==
    IF type = "move"
    THEN LET delta == [x |-> point.x - pointer.x, y |-> point.y - pointer.y]
         IN  [line EXCEPT !.p1 = clampPoint([x |-> line.p1.x + delta.x,
                                             y |-> line.p1.y + delta.y]),
                          !.p2 = clampPoint([x |-> line.p2.x + delta.x,
                                             y |-> line.p2.y + delta.y])]
    ELSE IF type = "p1"
    THEN [line EXCEPT !.p1 = clampPoint(point)]
    ELSE [line EXCEPT !.p2 = clampPoint(point)]

\* handlePointerMove moving the whole draft to the pointer
handlePointerMoveRestartingDraft(s, event) ==
    IF s.appMode # "draw" THEN s
    ELSE
      LET point == toNormalizedPoint(event, s.videoBounds)
      IN  IF s.draftLine # Null
          THEN IF point = Null THEN s
               ELSE [s EXCEPT !.draftLine = [s.draftLine EXCEPT !.p1 = point,
                                                                !.p2 = point]]
          ELSE IF point = Null \/ s.editSession = Null
          THEN s
          ELSE
            LET session == s.editSession
                first == FindById(s.lines, session.id)
                moved == [i \in 1..Len(s.lines) |->
                            IF s.lines[i].id # session.id THEN s.lines[i]
                            ELSE DraggedLine(s.lines[i], session.type, point,
                                             IF i = first THEN session.lastPointer
                                             ELSE point)]
            IN  [s EXCEPT !.lines = moved,
                          !.editSession = IF first = 0 THEN session
                                          ELSE [session EXCEPT !.lastPointer = point]]

\* handlePointerMove ending the drag when the pointer leaves the video
handlePointerMoveEndingDragOutside(s, event) ==
    IF s.appMode # "draw" THEN s
    ELSE
      LET point == toNormalizedPoint(event, s.videoBounds)
      IN  IF s.draftLine # Null
          THEN IF point = Null THEN s
               ELSE [s EXCEPT !.draftLine = [s.draftLine EXCEPT !.p2 = point]]
          ELSE IF point = Null \/ s.editSession = Null
          THEN IF s.editSession = Null THEN s
               ELSE [s EXCEPT !.editSession = Null, !.lastOp = "move_nopoint"]
          ELSE
            LET session == s.editSession
                first == FindById(s.lines, session.id)
                \* session.lastPointer is assigned inside the callback, so a
                \* later line with the same id sees the new pointer
                moved == [i \in 1..Len(s.lines) |->
                            IF s.lines[i].id # session.id THEN s.lines[i]
                            ELSE DraggedLine(s.lines[i], session.type, point,
                                             IF i = first THEN session.lastPointer
                                             ELSE point)]
            IN  [s EXCEPT !.lines = moved,
                          !.editSession = IF first = 0 THEN session
                                          ELSE [session EXCEPT !.lastPointer = point]]

\* lastOp records "move_nopoint" when a drag is in progress and the position
\* maps to no point
handlePointerMove(s, event) ==
    IF s.appMode # "draw" THEN s
    ELSE
      LET point == toNormalizedPoint(event, s.videoBounds)
      IN  IF s.draftLine # Null
          THEN IF point = Null THEN s
               ELSE [s EXCEPT !.draftLine = [s.draftLine EXCEPT !.p2 = point]]
          ELSE IF point = Null \/ s.editSession = Null
          THEN IF s.editSession = Null THEN s
               ELSE [s EXCEPT !.lastOp = "move_nopoint"]
          ELSE
            LET session == s.editSession
                first == FindById(s.lines, session.id)
                \* session.lastPointer is assigned inside the callback, so a
                \* later line with the same id sees the new pointer
                moved == [i \in 1..Len(s.lines) |->
                            IF s.lines[i].id # session.id THEN s.lines[i]
                            ELSE DraggedLine(s.lines[i], session.type, point,
                                             IF i = first THEN session.lastPointer
                                             ELSE point)]
            IN  [s EXCEPT !.lines = moved,
                          !.editSession = IF first = 0 THEN session
                                          ELSE [session EXCEPT !.lastPointer = point]]

\* handlePointerUp without the comparison against session.before
handlePointerUpAlwaysUpdate(s) ==
    IF s.appMode # "draw" THEN s
    ELSE IF s.draftLine # Null
    THEN [pushHistory(s, [type |-> "add", line |-> s.draftLine])
            EXCEPT !.lines = Append(s.lines, s.draftLine),
                   !.draftLine = Null,
                   !.selectedId = s.draftLine.id,
                   !.lastOp = "up_commit"]
    ELSE IF s.editSession # Null
    THEN LET session == s.editSession
             k == FindById(s.lines, session.id)
         IN  IF k # 0
             THEN [pushHistory(s, [type |-> "update", before |-> session.before,
                                   after |-> s.lines[k]])
                     EXCEPT !.editSession = Null, !.lastOp = "up_update"]
             ELSE [s EXCEPT !.editSession = Null, !.lastOp = "up_nochange"]
    ELSE [s EXCEPT !.editSession = Null]

\* handlePointerUp discarding a draft whose endpoints coincide
handlePointerUpDroppingTaps(s) ==
    IF s.appMode # "draw" THEN s
    ELSE IF s.draftLine # Null /\ s.draftLine.p1 = s.draftLine.p2
    THEN [s EXCEPT !.draftLine = Null]
    ELSE IF s.draftLine # Null
    THEN [pushHistory(s, [type |-> "add", line |-> s.draftLine])
            EXCEPT !.lines = Append(s.lines, s.draftLine),
                   !.draftLine = Null,
                   !.selectedId = s.draftLine.id,
                   !.lastOp = "up_commit"]
    ELSE IF s.editSession # Null
    THEN LET session == s.editSession
             k == FindById(s.lines, session.id)
         IN  IF k # 0 /\ ~SameCoords(s.lines[k], session.before)
             THEN [pushHistory(s, [type |-> "update", before |-> session.before,
                                   after |-> s.lines[k]])
                     EXCEPT !.editSession = Null, !.lastOp = "up_update"]
             ELSE [s EXCEPT !.editSession = Null, !.lastOp = "up_nochange"]
    ELSE [s EXCEPT !.editSession = Null]

handlePointerUp(s) ==
    IF s.appMode # "draw" THEN s
    ELSE IF s.draftLine # Null
    THEN [pushHistory(s, [type |-> "add", line |-> s.draftLine])
            EXCEPT !.lines = Append(s.lines, s.draftLine),
                   !.draftLine = Null,
                   !.selectedId = s.draftLine.id,
                   !.lastOp = "up_commit"]
    ELSE IF s.editSession # Null
    THEN LET session == s.editSession
             k == FindById(s.lines, session.id)
         IN  IF k # 0 /\ ~SameCoords(s.lines[k], session.before)
             THEN [pushHistory(s, [type |-> "update", before |-> session.before,
                                   after |-> s.lines[k]])
                     EXCEPT !.editSession = Null, !.lastOp = "up_update"]
             ELSE [s EXCEPT !.editSession = Null, !.lastOp = "up_nochange"]
    ELSE [s EXCEPT !.editSession = Null]

----------------------------------------------------------------------------
(* Undo, redo, delete, reset *)

\* handleUndo re-inserting a deleted line at the front of the list
handleUndoPrepending(s) ==
    IF s.history = <<>> THEN s
    ELSE LET last == Last(s.history)
         IN  [s EXCEPT
                !.lines = IF last.type = "add" THEN RemoveById(s.lines, last.line.id)
                          ELSE IF last.type = "delete" THEN <<last.line>> \o s.lines
                          ELSE ReplaceById(s.lines, last.after.id, last.before),
                !.redoStack = PushBounded(s.redoStack, last),
                !.evicted = Len(s.redoStack) >= HISTORY_LIMIT,
                !.history = DropLast(s.history),
                !.lastOp = "undo"]

handleUndo(s) ==
    IF s.history = <<>> THEN s
    ELSE LET last == Last(s.history)
         IN  [s EXCEPT
                !.lines = IF last.type = "add" THEN RemoveById(s.lines, last.line.id)
                          ELSE IF last.type = "delete" THEN Append(s.lines, last.line)
                          ELSE ReplaceById(s.lines, last.after.id, last.before),
                !.redoStack = PushBounded(s.redoStack, last),
                !.evicted = Len(s.redoStack) >= HISTORY_LIMIT,
                !.history = DropLast(s.history),
                !.lastOp = "undo"]

\* the updater of setRedoStack returns prev: the entry stays on the Redo stack
handleRedo(s) ==
    IF s.redoStack = <<>> THEN s
    ELSE LET last == Last(s.redoStack)
         IN  [s EXCEPT
                !.lines = IF last.type = "add" THEN Append(s.lines, last.line)
                          ELSE IF last.type = "delete" THEN RemoveById(s.lines, last.line.id)
                          ELSE ReplaceById(s.lines, last.before.id, last.after),
                !.history = PushBounded(s.history, last),
                !.evicted = Len(s.history) >= HISTORY_LIMIT,
                !.redoStack = s.redoStack,
                !.lastOp = "redo"]

\* deleteSelected leaving the deleted line selected
deleteSelectedKeepingSelection(s) ==
    IF s.selectedId = NoId THEN s
    ELSE LET k == FindById(s.lines, s.selectedId)
         IN  IF k = 0 THEN [s EXCEPT !.lastOp = "delete_noop"]
             ELSE [pushHistory(s, [type |-> "delete", line |-> s.lines[k]])
                     EXCEPT !.lines = RemoveById(s.lines, s.selectedId),
                            !.lastOp = "delete"]

\* deleteSelected dropping a selection that is not in the list
deleteSelectedClearingMissing(s) ==
    IF s.selectedId = NoId THEN s
    ELSE LET k == FindById(s.lines, s.selectedId)
         IN  IF k = 0 THEN [s EXCEPT !.selectedId = NoId, !.lastOp = "delete_noop"]
             ELSE [pushHistory(s, [type |-> "delete", line |-> s.lines[k]])
                     EXCEPT !.lines = RemoveById(s.lines, s.selectedId),
                            !.selectedId = NoId,
                            !.lastOp = "delete"]

deleteSelected(s) ==
    IF s.selectedId = NoId THEN s
    ELSE LET k == FindById(s.lines, s.selectedId)
         IN  IF k = 0 THEN [s EXCEPT !.lastOp = "delete_noop"]
             ELSE [pushHistory(s, [type |-> "delete", line |-> s.lines[k]])
                     EXCEPT !.lines = RemoveById(s.lines, s.selectedId),
                            !.selectedId = NoId,
                            !.lastOp = "delete"]

\* what resetDrawing records in lastOp: "reset_busy" when it discarded a
\* gesture in progress together with a selection and a non-empty History
ResetLabel(s) ==
    IF /\ s.draftLine # Null \/ s.editSession # Null
       /\ s.selectedId # NoId
       /\ s.history # <<>>
    THEN "reset_busy" ELSE "reset"

ResetOps == {"reset", "reset_busy", "reset_late"}

\* resetDrawing without editSessionRef.current = null
resetDrawingKeepingSession(s, nextLines) ==
    [s EXCEPT !.lines = nextLines,
              !.draftLine = Null,
              !.selectedId = NoId,
              !.history = <<>>,
              !.redoStack = <<>>,
              !.lastOp = ResetLabel(s)]

resetDrawing(s, nextLines) ==
    [s EXCEPT !.lines = nextLines,
              !.draftLine = Null,
              !.selectedId = NoId,
              !.history = <<>>,
              !.redoStack = <<>>,
              !.editSession = Null,
              !.lastOp = ResetLabel(s)]

\* clearInteraction committing the draft it finds
clearInteractionCommittingDraft(s) ==
    [s EXCEPT !.lines = IF s.draftLine # Null THEN Append(s.lines, s.draftLine)
                        ELSE s.lines,
              !.draftLine = Null, !.selectedId = NoId, !.editSession = Null,
              !.lastOp = IF s.draftLine # Null THEN "clear_draft" ELSE s.lastOp]

\* lastOp records "clear_draft" when a draft in progress was discarded
clearInteraction(s) ==
    [s EXCEPT !.draftLine = Null, !.selectedId = NoId, !.editSession = Null,
              !.lastOp = IF s.draftLine # Null THEN "clear_draft" ELSE s.lastOp]

\* keydown listener on window
handleKeyDown(s, key, activeTag) ==
    IF key # "Delete" \/ s.selectedId = NoId THEN s
    ELSE IF activeTag \in {"INPUT", "TEXTAREA", "SELECT"}
    THEN s
    ELSE deleteSelected(s)

----------------------------------------------------------------------------
(* Handlers of App *)

\* ensurePlaybackMode without its call of clearInteraction
ensurePlaybackModeKeepingInteraction(s) ==
    IF s.appMode = "playback" THEN s
    ELSE [s EXCEPT !.appMode = "playback"]

ensurePlaybackMode(s) ==
    IF s.appMode = "playback" THEN s
    ELSE [clearInteraction(s) EXCEPT !.appMode = "playback"]

\* the new src makes the video element load the file, which pauses it;
\* a load still in flight is not cancelled by the selection: its
\* continuation runs when it resolves (staleLoads, oldest first)
onFileChange(s, key) ==
    [resetDrawing(ensurePlaybackMode(s), <<>>)
        EXCEPT !.videoUrl = TRUE, !.videoKey = key, !.loadPending = "metadata",
               !.playing = FALSE,
               !.staleLoads = IF s.loadPending = "load"
                              THEN Append(@, [key |-> s.videoKey, read |-> s.loadRead])
                              ELSE @]

\* the store after the puts `ws', oldest first, have completed
RECURSIVE ApplyWrites(_, _)
ApplyWrites(st, ws) ==
    IF ws = <<>> THEN st
    ELSE ApplyWrites([st EXCEPT ![Head(ws).key] =
                          [found |-> TRUE, lines |-> Head(ws).lines]],
                     Tail(ws))

\* objectStore.get(videoKey) of loadDrawing.  Every call opens its own
\* connection and transaction, and IndexedDB runs them in the order they
\* were requested, so the read sees exactly the writes issued before it.
\* (Puts still in flight are ahead of the read in that order.)
loadDrawing(s, key) == ApplyWrites(s.store, s.writes)[key]

\* objectStore.put(lines, videoKey) of saveDrawing.  The put is asynchronous:
\* with `queued' it waits in `writes' until WriteCompletes; otherwise it is
\* taken to completion within the step that issues it, which leaves the
\* store as the queue does once it has drained
saveDrawing(s, key, ls) ==
    IF s.queued
    THEN [s EXCEPT !.writes = Append(@, [key |-> key, lines |-> ls])]
    ELSE [s EXCEPT !.store[key] = [found |-> TRUE, lines |-> ls]]

\* loadDrawing when opening the database, the transaction or the get throws:
\* the catch logs the error and returns null
loadDrawingFailed == NotStored

\* saveDrawing when opening the database, the transaction or the put throws:
\* the catch logs the error, nothing is stored and nothing is returned
saveDrawingFailed(s, key, ls) == s

\* loadedmetadata: the bounds become known and loadDrawing(videoKey) is issued
handleLoaded(s) ==
    IF s.videoKey # NoKey
    THEN [s EXCEPT !.videoBounds = LoadedBounds, !.loadPending = "load",
                   !.loadRead = loadDrawing(s, s.videoKey), !.playing = FALSE]
    ELSE [resetDrawing(s, <<>>)
            EXCEPT !.videoBounds = LoadedBounds, !.loadPending = "none",
                   !.playing = FALSE]

\* the effect with [videoKey] as its dependencies
saveEffectOnKeyChange(prev, s) ==
    IF s.videoKey = NoKey THEN s
    ELSE IF s.videoKey # prev.videoKey
    THEN saveDrawing(s, s.videoKey, s.lines)
    ELSE s

\* useEffect(..., [lines, videoKey]): after a render in which the line list
\* or the key is a new value the full list is saved under the current key.
\* (A new array with the old contents also triggers it and writes what is
\* stored already.)
saveEffect(prev, s) ==
    IF s.videoKey = NoKey THEN s
    ELSE IF s.videoKey # prev.videoKey \/ s.lines # prev.lines \/ s.lastOp \in ResetOps
    THEN saveDrawing(s, s.videoKey, s.lines)
    ELSE s

\* the list holds a line that was not in the store when the pending load
\* read it
EditedSinceRead(s) ==
    \E i \in 1..Len(s.lines) :
        \A j \in 1..Len(s.loadRead.lines) :
            s.loadRead.lines[j].id # s.lines[i].id

\* the continuation leaving the state alone when the list was edited after
\* the read
loadResolvedUnlessEdited(s, saved) ==
    IF EditedSinceRead(s)
    THEN [s EXCEPT !.loadPending = "none", !.loadRead = NotStored]
    ELSE [resetDrawing(s, IF saved.found THEN saved.lines ELSE <<>>)
            EXCEPT !.loadPending = "none", !.loadRead = NotStored]

\* loadDrawing(videoKey).then((saved) => resetDrawing(saved ?? []));
\* lastOp records "reset_late" when a line committed after the read is
\* discarded with no gesture in progress
loadResolved(s, saved) ==
    [resetDrawing(s, IF saved.found THEN saved.lines ELSE <<>>)
        EXCEPT !.loadPending = "none", !.loadRead = NotStored,
               !.lastOp = IF ResetLabel(s) = "reset" /\ EditedSinceRead(s)
                          THEN "reset_late" ELSE ResetLabel(s)]

\* the same continuation, of a load requested before the last selection
staleResolved(s, saved) ==
    [resetDrawing(s, IF saved.found THEN saved.lines ELSE <<>>)
        EXCEPT !.staleLoads = Tail(@)]

\* handleAppModeToggle without videoRef.current?.pause()
handleAppModeToggleNotPausing(s) ==
    IF s.appMode = "playback"
    THEN [s EXCEPT !.appMode = "draw",
                   !.lastOp = IF s.playing THEN "draw_paused" ELSE "other"]
    ELSE [clearInteraction(s) EXCEPT !.appMode = "playback"]

\* lastOp records "draw_paused" when the toggle found the video playing
handleAppModeToggle(s) ==
    IF s.appMode = "playback"
    THEN [s EXCEPT !.appMode = "draw", !.playing = FALSE,
                   !.lastOp = IF s.playing THEN "draw_paused" ELSE "other"]
    ELSE [clearInteraction(s) EXCEPT !.appMode = "playback"]

\* rate change and seek start with ensurePlaybackMode(); nothing else they
\* do touches the drawing state or starts or stops the video
transportControl(s) == ensurePlaybackMode(s)

\* isPlaying follows the video element through its play and pause events
handlePlayPause(s) ==
    IF ~s.videoUrl THEN s
    ELSE [ensurePlaybackMode(s) EXCEPT !.playing = ~s.playing]

\* frame step, for a video whose duration is known
step(s) ==
    IF ~s.videoUrl THEN s
    ELSE [ensurePlaybackMode(s) EXCEPT !.playing = FALSE]

\* the container fills the window: rect.left = rect.top = 0
isPointerOnVideo(event, bounds) ==
    /\ bounds # Null
    /\ event.clientX >= bounds.x
    /\ event.clientX <= bounds.x + bounds.width
    /\ event.clientY >= bounds.y
    /\ event.clientY <= bounds.y + bounds.height

\* handleMainPointerDown handing the event to the drawing surface in
\* playback mode as well, the surface not checking the mode either
handleMainPointerDownInAnyMode(s, event) ==
    IF event.onControl THEN s
    ELSE [handlePointerDown([s EXCEPT !.appMode = "draw"], event)
            EXCEPT !.appMode = s.appMode,
                   !.lastOp = IF s.appMode = "playback" THEN "down_playback"
                              ELSE "other"]

\* in playback mode the pointer toggles play/pause or shows the controls;
\* lastOp records "down_playback"
handleMainPointerDown(s, event) ==
    IF event.onControl THEN s
    ELSE IF s.appMode = "playback"
    THEN IF s.videoUrl /\ isPointerOnVideo(event, s.videoBounds)
         THEN [handlePlayPause(s) EXCEPT !.lastOp = "down_playback"]
         ELSE [s EXCEPT !.lastOp = "down_playback"]
    ELSE handlePointerDown(s, event)

----------------------------------------------------------------------------
(* The state machine *)

Init ==
    /\ lines = <<>>
    /\ draftLine = Null
    /\ selectedId = NoId
    /\ history = <<>>
    /\ redoStack = <<>>
    /\ editSession = Null
    /\ appMode = "playback"
    /\ videoUrl = FALSE
    /\ videoBounds = Null
    /\ loadPending = "none"
    /\ nextId = 1
    /\ lastOp = "other"
    /\ evicted = FALSE
    /\ redoCleared = FALSE
    /\ steps = 0
    /\ videoKey = NoKey
    /\ store \in [VideoKeys -> LoadResults]
    /\ loadRead = NotStored
    /\ probe = NoProbe
    /\ answer = NoAnswer
    /\ writes = <<>>
    /\ queued = FALSE
    /\ staleLoads = <<>>
    /\ playing = FALSE

\* the handler's result is rendered and the effects of the render run
Becomes(handled) ==
    \E s \in {saveEffect(St, handled)} :
        /\ lines' = s.lines
        /\ draftLine' = s.draftLine
        /\ selectedId' = s.selectedId
        /\ history' = s.history
        /\ redoStack' = s.redoStack
        /\ editSession' = s.editSession
        /\ appMode' = s.appMode
        /\ videoUrl' = s.videoUrl
        /\ videoBounds' = s.videoBounds
        /\ loadPending' = s.loadPending
        /\ nextId' = s.nextId
        /\ lastOp' = s.lastOp
        /\ evicted' = s.evicted
        /\ redoCleared' = s.redoCleared
        /\ videoKey' = s.videoKey
        /\ store' = s.store
        /\ loadRead' = s.loadRead
        /\ writes' = s.writes
        /\ queued' = s.queued
        /\ staleLoads' = s.staleLoads
        /\ playing' = s.playing
        /\ UNCHANGED <<probe, answer>>

\* a drawing event (pointer, key, Undo, Redo, Delete), within the bounds
DrawingEvent(handled) ==
    /\ steps < MaxSteps
    /\ \E s \in {handled} :
          /\ s.nextId <= MaxIds + 1
          /\ Len(s.lines) <= MaxLines
          /\ Becomes(s)
    /\ steps' = steps + 1

\* an event of App outside the drawing surface
AppEvent(handled) ==
    /\ \E s \in {handled} : Becomes(s)
    /\ UNCHANGED steps

PointerDown ==
    \E event \in PointerEvents : DrawingEvent(handleMainPointerDown(St, event))

PointerMove ==
    \E event \in PointerEvents : DrawingEvent(handlePointerMove(St, event))

PointerUp == DrawingEvent(handlePointerUp(St))

\* the Undo, Redo and Delete buttons are rendered in draw mode only
Undo == appMode = "draw" /\ DrawingEvent(handleUndo(St))

Redo == appMode = "draw" /\ DrawingEvent(handleRedo(St))

DeleteSelected == appMode = "draw" /\ DrawingEvent(deleteSelected(St))

KeyDown ==
    \E key \in {"Delete", "Backspace"}, activeTag \in {"BODY", "INPUT"} :
        DrawingEvent(handleKeyDown(St, key, activeTag))

\* a file is selected while no load is in flight
FileChange ==
    /\ loadPending # "load"
    /\ \E key \in VideoKeys : AppEvent(onFileChange(St, key))

\* a file is selected at any time, also while loads are in flight
FileChangeAnyTime ==
    /\ \E key \in AllKeys : AppEvent(onFileChange(St, key))
    /\ Len(staleLoads') <= MaxStale

Loaded == loadPending = "metadata" /\ AppEvent(handleLoaded(St))

\* the read resolves with what it found, or with null when it failed
LoadResolved ==
    /\ loadPending = "load"
    /\ staleLoads = <<>>
    /\ \E saved \in {loadRead, NotStored} : AppEvent(loadResolved(St, saved))

\* a load requested before the last selection resolves; the reads complete
\* in the order they were requested
StaleLoadResolved ==
    /\ staleLoads # <<>>
    /\ \E saved \in {Head(staleLoads).read, NotStored} :
          AppEvent(staleResolved(St, saved))

\* the mode button is disabled until a video is selected
AppModeToggle == videoUrl /\ AppEvent(handleAppModeToggle(St))

TransportControl == videoUrl /\ AppEvent(transportControl(St))

PlayPause == videoUrl /\ AppEvent(handlePlayPause(St))

FrameStep == videoUrl /\ AppEvent(step(St))

Next ==
    \/ PointerDown
    \/ PointerMove
    \/ PointerUp
    \/ Undo
    \/ Redo
    \/ DeleteSelected
    \/ KeyDown
    \/ FileChange
    \/ Loaded
    \/ LoadResolved
    \/ AppModeToggle
    \/ TransportControl
    \/ PlayPause
    \/ FrameStep

Spec == Init /\ [][Next]_vars

----------------------------------------------------------------------------
(* The coordinate mapper and the hit tester on their own.  A probe is one   *)
(* call: its arguments are chosen by ProbeInit and the call's result is    *)
(* put in `answer'.  The state machine keeps probe and answer untouched.   *)

\* a video rectangle narrower than twice the handle radius per grid step
NarrowBounds == [x |-> 0, y |-> 0, width |-> 60, height |-> 100]

ProbeBounds == {Null, LoadedBounds, NarrowBounds}

\* container-local positions around a rectangle: one pixel outside, on each
\* edge, and in the middle
Around(from, size) == {from - 1, from, from + size \div 2, from + size, from + size + 1}

\* pointer events at the positions around the rectangle the call is made
\* with (around LoadedBounds when the bounds are null); at these positions
\* the quotient is a multiple of 1/Unit, so the mapper's result is exact
MapProbes ==
    { [kind |-> "map", bounds |-> b,
       event |-> [clientX |-> ContainerRect.left + px,
                  clientY |-> ContainerRect.top + py,
                  button |-> 0, onControl |-> FALSE]] :
        b \in {Null}, px \in Around(LoadedBounds.x, LoadedBounds.width),
        py \in Around(LoadedBounds.y, LoadedBounds.height) }
    \cup
    UNION { { [kind |-> "map", bounds |-> b,
               event |-> [clientX |-> ContainerRect.left + px,
                          clientY |-> ContainerRect.top + py,
                          button |-> 0, onControl |-> FALSE]] :
                px \in Around(b.x, b.width), py \in Around(b.y, b.height) } :
            b \in ProbeBounds \ {Null} }

\* the normalized points (0, 0), (0.5, 0), (1, 0), (0, 0.5), (0.5, 0.5), (1, 0.5)
ProbePoints == {[x |-> px, y |-> py] : px \in 0..Unit, py \in 0..(Unit - 1)}

\* the line lists of at most two lines with endpoints among the probe
\* points; the i-th line has id i
ProbeLists ==
    {<<>>}
    \cup {<<[id |-> 1, p1 |-> a, p2 |-> b]>> : a \in ProbePoints, b \in ProbePoints}
    \cup {<<[id |-> 1, p1 |-> a, p2 |-> b], [id |-> 2, p1 |-> c, p2 |-> d]>> :
            a \in ProbePoints, b \in ProbePoints,
            c \in ProbePoints, d \in ProbePoints}

HitProbes ==
    {[kind |-> "hit", bounds |-> b, point |-> pt, lines |-> ls] :
        b \in ProbeBounds, pt \in ProbePoints, ls \in ProbeLists}

\* how far beyond the unit square the points given to clampPoint lie, in
\* steps of 1/Unit
ClampMargin == 3

\* points inside and outside the unit square
ClampProbes ==
    {[kind |-> "clamp", point |-> [x |-> px, y |-> py]] :
        px \in (0 - ClampMargin)..(Unit + ClampMargin),
        py \in (0 - ClampMargin)..(Unit + ClampMargin)}

\* calls of distanceToSegment: p, a and b among the probe points, with the
\* width and height of a video rectangle
DistProbes ==
    {[kind |-> "dist", bounds |-> bd, point |-> pt, a |-> a, b |-> b] :
        bd \in ProbeBounds \ {Null}, pt \in ProbePoints,
        a \in ProbePoints, b \in ProbePoints}

ProbeInit ==
    /\ lines = <<>>
    /\ draftLine = Null
    /\ selectedId = NoId
    /\ history = <<>>
    /\ redoStack = <<>>
    /\ editSession = Null
    /\ appMode = "playback"
    /\ videoUrl = FALSE
    /\ videoBounds = Null
    /\ loadPending = "none"
    /\ nextId = 1
    /\ lastOp = "other"
    /\ evicted = FALSE
    /\ redoCleared = FALSE
    /\ steps = 0
    /\ videoKey = NoKey
    /\ store = [key \in VideoKeys |-> NotStored]
    /\ loadRead = NotStored
    /\ probe \in MapProbes \cup HitProbes \cup ClampProbes \cup DistProbes
    /\ answer = NoAnswer
    /\ writes = <<>>
    /\ queued = FALSE
    /\ staleLoads = <<>>
    /\ playing = FALSE

Answered(result) ==
    /\ answer = NoAnswer
    /\ answer' = result
    /\ UNCHANGED <<lines, draftLine, selectedId, history, redoStack, editSession,
                   appMode, videoUrl, videoBounds, loadPending, nextId, lastOp,
                   evicted, redoCleared, steps, videoKey, store, loadRead, probe,
                   writes, queued, staleLoads, playing>>

MapPoint ==
    /\ probe.kind = "map"
    /\ Answered(toNormalizedPoint(probe.event, probe.bounds))

HitTest ==
    /\ probe.kind = "hit"
    /\ Answered(findHit(probe.point, probe.lines, probe.bounds))

ClampPoint ==
    /\ probe.kind = "clamp"
    /\ Answered(clampPoint(probe.point))

Distance ==
    /\ probe.kind = "dist"
    /\ Answered(distanceToSegmentSq(probe.point, probe.a, probe.b,
                                     probe.bounds.width, probe.bounds.height))

ProbeNext == MapPoint \/ HitTest \/ ClampPoint \/ Distance

ProbeSpec == ProbeInit /\ [][ProbeNext]_vars

\* The same machine with runs of at most ShortSteps drawing events, for the
\* properties that apply a whole gesture (several handlers in a row) to
\* every reachable state.
ShortNext ==
    \/ steps < ShortSteps /\ PointerDown
    \/ steps < ShortSteps /\ PointerMove
    \/ steps < ShortSteps /\ PointerUp
    \/ steps < ShortSteps /\ Undo
    \/ steps < ShortSteps /\ Redo
    \/ steps < ShortSteps /\ DeleteSelected
    \/ steps < ShortSteps /\ KeyDown
    \/ FileChange
    \/ Loaded
    \/ LoadResolved
    \/ AppModeToggle
    \/ TransportControl
    \/ PlayPause
    \/ FrameStep

ShortSpec == Init /\ [][ShortNext]_vars

\* The same machine with the puts of saveDrawing completing in later steps,
\* in the order they were issued, for the properties about what the store
\* holds once the writes have completed.
SaveSteps == 4

\* puts in flight at one time
MaxWrites == 2

SaveInit ==
    /\ lines = <<>>
    /\ draftLine = Null
    /\ selectedId = NoId
    /\ history = <<>>
    /\ redoStack = <<>>
    /\ editSession = Null
    /\ appMode = "playback"
    /\ videoUrl = FALSE
    /\ videoBounds = Null
    /\ loadPending = "none"
    /\ nextId = 1
    /\ lastOp = "other"
    /\ evicted = FALSE
    /\ redoCleared = FALSE
    /\ steps = 0
    /\ videoKey = NoKey
    /\ store \in [VideoKeys -> LoadResults]
    /\ loadRead = NotStored
    /\ probe = NoProbe
    /\ answer = NoAnswer
    /\ writes = <<>>
    /\ queued = TRUE
    /\ staleLoads = <<>>
    /\ playing = FALSE

\* tx.oncomplete of the oldest put in flight
WriteCompletes ==
    /\ writes # <<>>
    /\ store' = ApplyWrites(store, <<Head(writes)>>)
    /\ writes' = Tail(writes)
    /\ UNCHANGED <<lines, draftLine, selectedId, history, redoStack, editSession,
                   appMode, videoUrl, videoBounds, loadPending, nextId, lastOp,
                   evicted, redoCleared, steps, videoKey, loadRead, probe, answer,
                   queued, staleLoads, playing>>

SaveNext ==
    \/ steps < SaveSteps /\ PointerDown /\ Len(writes') <= MaxWrites
    \/ steps < SaveSteps /\ PointerMove /\ Len(writes') <= MaxWrites
    \/ steps < SaveSteps /\ PointerUp /\ Len(writes') <= MaxWrites
    \/ steps < SaveSteps /\ Undo /\ Len(writes') <= MaxWrites
    \/ steps < SaveSteps /\ Redo /\ Len(writes') <= MaxWrites
    \/ steps < SaveSteps /\ DeleteSelected /\ Len(writes') <= MaxWrites
    \/ steps < SaveSteps /\ KeyDown /\ Len(writes') <= MaxWrites
    \/ FileChange /\ Len(writes') <= MaxWrites
    \/ Loaded
    \/ LoadResolved /\ Len(writes') <= MaxWrites
    \/ AppModeToggle
    \/ TransportControl
    \/ WriteCompletes

\* a put in flight completes: the transaction is not held back by anything
\* the application does
SaveSpec == SaveInit /\ [][SaveNext]_vars /\ WF_vars(WriteCompletes)

\* The drawing state on its own, from the state a Reset leaves behind: a
\* load has resolved with the list L0 and the user has entered draw mode.
\* Only runs in which no History entry is evicted at the cap are followed.
UndoSteps == 6

\* the list the load resolved to
L0 == <<[id |-> SavedId, p1 |-> [x |-> 0, y |-> 0], p2 |-> [x |-> Unit, y |-> 0]]>>

UndoInit ==
    /\ lines = L0
    /\ draftLine = Null
    /\ selectedId = NoId
    /\ history = <<>>
    /\ redoStack = <<>>
    /\ editSession = Null
    /\ appMode = "draw"
    /\ videoUrl = TRUE
    /\ videoBounds = LoadedBounds
    /\ loadPending = "none"
    /\ nextId = 1
    /\ lastOp = "other"
    /\ evicted = FALSE
    /\ redoCleared = FALSE
    /\ steps = 0
    /\ videoKey \in VideoKeys
    /\ store = [key \in VideoKeys |-> [found |-> TRUE, lines |-> L0]]
    /\ loadRead = NotStored
    /\ probe = NoProbe
    /\ answer = NoAnswer
    /\ writes = <<>>
    /\ queued = FALSE
    /\ staleLoads = <<>>
    /\ playing = FALSE

\* the step has not dropped the oldest History entry (Undo's eviction is
\* from the Redo stack)
HistoryKept == ~evicted' \/ lastOp' = "undo"

UndoNext ==
    \/ steps < UndoSteps /\ PointerDown /\ HistoryKept
    \/ steps < UndoSteps /\ PointerMove /\ HistoryKept
    \/ steps < UndoSteps /\ PointerUp /\ HistoryKept
    \/ steps < UndoSteps /\ Undo /\ HistoryKept
    \/ steps < UndoSteps /\ Redo /\ HistoryKept
    \/ steps < UndoSteps /\ DeleteSelected /\ HistoryKept
    \/ steps < UndoSteps /\ KeyDown /\ HistoryKept

UndoSpec == UndoInit /\ [][UndoNext]_vars

\* The machine with two video files, the user selecting either at any time,
\* also while the load of the previous selection is in flight.
KeyInit ==
    /\ lines = <<>>
    /\ draftLine = Null
    /\ selectedId = NoId
    /\ history = <<>>
    /\ redoStack = <<>>
    /\ editSession = Null
    /\ appMode = "playback"
    /\ videoUrl = FALSE
    /\ videoBounds = Null
    /\ loadPending = "none"
    /\ nextId = 1
    /\ lastOp = "other"
    /\ evicted = FALSE
    /\ redoCleared = FALSE
    /\ steps = 0
    /\ videoKey = NoKey
    /\ store \in [AllKeys -> LoadResults]
    /\ loadRead = NotStored
    /\ probe = NoProbe
    /\ answer = NoAnswer
    /\ writes = <<>>
    /\ queued = FALSE
    /\ staleLoads = <<>>
    /\ playing = FALSE

KeyNext ==
    \/ steps < KeySteps /\ PointerDown
    \/ steps < KeySteps /\ PointerMove
    \/ steps < KeySteps /\ PointerUp
    \/ steps < KeySteps /\ Undo
    \/ steps < KeySteps /\ Redo
    \/ steps < KeySteps /\ DeleteSelected
    \/ steps < KeySteps /\ KeyDown
    \/ FileChangeAnyTime
    \/ Loaded
    \/ LoadResolved
    \/ StaleLoadResolved
    \/ AppModeToggle
    \/ TransportControl

KeySpec == KeyInit /\ [][KeyNext]_vars

----------------------------------------------------------------------------
(* Properties *)

Coords(l) == <<l.p1.x, l.p1.y, l.p2.x, l.p2.y>>

HasId(ls, id) == \E i \in 1..Len(ls) : ls[i].id = id

\* no pointer gesture is in progress
NoGesture == draftLine = Null /\ editSession = Null

\* the top History entry is the last change made to the line list
TopIsLastEdit ==
    LET top == Last(history)
    IN  /\ top.type = "add" => \E i \in 1..Len(lines) : lines[i] = top.line
        /\ top.type = "delete" => ~HasId(lines, top.line.id)
        /\ top.type = "update" => \E i \in 1..Len(lines) : lines[i] = top.after

\* the branches that push a user edit with pushHistory
EditOps == {"up_commit", "up_update", "delete"}

\* C1: from every state with a non-empty History stack that edits, undos and
\* redos lead to (no gesture in progress, the top History entry being the
\* last change of the list), Undo followed immediately by Redo yields the
\* line list that existed before the Undo: same lines, same coordinates,
\* same order.
C1_UndoRedoRestoresLines ==
    (history # <<>> /\ NoGesture /\ TopIsLastEdit)
        => handleRedo(handleUndo(St)).lines = lines

\* C2: whenever the Redo stack is non-empty, Redo removes exactly its top
\* entry from the Redo stack, pushes it onto the History stack and re-applies
\* its forward action.
C2_RedoPopsTop ==
    redoStack # <<>> =>
        LET r == handleRedo(St)
            top == Last(redoStack)
        IN  /\ r.redoStack = SubSeq(redoStack, 1, Len(redoStack) - 1)
            /\ Last(r.history) = top
            /\ top.type = "add" => r.lines = Append(lines, top.line)
            /\ top.type = "delete" => ~HasId(r.lines, top.line.id)

\* C3: whenever the History stack is non-empty, Undo removes exactly its top
\* entry, pushes it on top of the Redo stack (dropping the oldest Redo entry
\* at the cap) and applies its inverse: Add(l) removes the line with l.id,
\* Delete(l) appends l at the end, Update(before, after) replaces the line
\* whose id is after.id by before; every other line, the draft, the selection
\* and the drag session are unchanged.
C3_UndoAppliesInverse ==
    history # <<>> =>
        LET u == handleUndo(St)
            top == history[Len(history)]
        IN  /\ u.history = SubSeq(history, 1, Len(history) - 1)
            /\ u.redoStack # <<>>
            /\ u.redoStack[Len(u.redoStack)] = top
            /\ IF Len(redoStack) < HISTORY_LIMIT
               THEN u.redoStack = redoStack \o <<top>>
               ELSE u.redoStack = Tail(redoStack) \o <<top>>
            /\ top.type = "add" =>
                  /\ ~HasId(u.lines, top.line.id)
                  /\ u.lines = SelectSeq(lines, LAMBDA l : l.id # top.line.id)
            /\ top.type = "delete" => u.lines = lines \o <<top.line>>
            /\ top.type = "update" =>
                  /\ Len(u.lines) = Len(lines)
                  /\ \A i \in 1..Len(lines) :
                        u.lines[i] = IF lines[i].id = top.after.id
                                     THEN top.before ELSE lines[i]
            /\ u.draftLine = draftLine
            /\ u.selectedId = selectedId
            /\ u.editSession = editSession

\* an Undo of a Delete has re-inserted a line behind another line
C3_Witness ==
    /\ lastOp = "undo"
    /\ redoStack # <<>>
    /\ Last(redoStack).type = "delete"
    /\ Len(lines) >= 2
    /\ lines[Len(lines)] = Last(redoStack).line

\* C4: in every reachable state no two lines of the committed line list have
\* the same id.
C4_UniqueLineIds ==
    \A i, j \in 1..Len(lines) : i # j => lines[i].id # lines[j].id

\* C5: in every reachable state the selection is none or the id of a line
\* that is in the committed line list.
C5_SelectionInList ==
    selectedId = NoId \/ HasId(lines, selectedId)

\* C6: in every reachable state at most one of the draft line and the drag
\* session is non-null.
C6_DraftOrDragNotBoth ==
    draftLine = Null \/ editSession = Null

\* C7: in every reachable state the History stack and the Redo stack each
\* hold at most HISTORY_LIMIT entries.
C7_StacksWithinLimit ==
    /\ Len(history) <= HISTORY_LIMIT
    /\ Len(redoStack) <= HISTORY_LIMIT

\* a push has just dropped an entry at the cap
C7_Witness ==
    /\ evicted
    /\ Len(history) = HISTORY_LIMIT

\* C8: a push onto a History or Redo stack that holds the cap of entries
\* drops exactly the oldest entry and keeps the others in order with the new
\* entry on top; a push onto a stack below the cap drops nothing.
C8_PushEvictsOldest ==
    [][ /\ lastOp' \in EditOps \cup {"redo"} =>
            /\ history' # <<>>
            /\ IF Len(history) < HISTORY_LIMIT
               THEN history' = history \o <<history'[Len(history')]>>
               ELSE history' = Tail(history) \o <<history'[Len(history')]>>
        /\ lastOp' = "undo" =>
            /\ redoStack' # <<>>
            /\ redoStack'[Len(redoStack')] = history[Len(history)]
            /\ IF Len(redoStack) < HISTORY_LIMIT
               THEN redoStack' = redoStack \o <<history[Len(history)]>>
               ELSE redoStack' = Tail(redoStack) \o <<history[Len(history)]>>
      ]_vars

\* a user edit has just been pushed onto a full History stack
C8_Witness ==
    /\ evicted
    /\ lastOp \in EditOps
    /\ Len(history) = HISTORY_LIMIT
    /\ history[1] # history[Len(history)]

\* C9: every operation that pushes a new History action as a user edit
\* (PointerUp committing a draft, PointerUp ending a drag with net movement,
\* DeleteSelected on an existing line) leaves the Redo stack empty, so a Redo
\* issued right after it changes nothing.
C9_EditClearsRedo ==
    lastOp \in EditOps =>
        /\ redoStack = <<>>
        /\ handleRedo(St).lines = lines
        /\ handleRedo(St).history = history
        /\ handleRedo(St).redoStack = redoStack

\* an edit has been pushed while the Redo stack held an entry
C9_Witness ==
    /\ lastOp \in EditOps
    /\ redoCleared

\* C10: every Update(before, after) pushed by PointerUp has before and after
\* differing in at least one coordinate, and a PointerUp that ends a drag
\* whose line has the coordinates of the session's before snapshot pushes
\* nothing and leaves the Redo stack untouched.
C10_UpdateOnlyOnNetMovement ==
    /\ lastOp = "up_update" =>
          /\ history # <<>>
          /\ Last(history).type = "update"
          /\ Coords(Last(history).before) # Coords(Last(history).after)
    /\ (appMode = "draw" /\ draftLine = Null /\ editSession # Null) =>
          LET u == handlePointerUp(St)
              k == FindById(lines, editSession.id)
          IN  (k = 0 \/ Coords(lines[k]) = Coords(editSession.before)) =>
                  /\ u.history = history
                  /\ u.redoStack = redoStack

\* a drag without net movement has been released while the Redo stack held
\* an entry
C10_Witness ==
    /\ lastOp = "up_nochange"
    /\ redoStack # <<>>
    /\ history = <<>>

\* the list a load result seeds the state with (saved ?? [])
Seeded(saved) == IF saved.found THEN saved.lines ELSE <<>>

\* C11: if the list L is the last one saved under video key K, then selecting
\* a video with key K and loading its metadata reads L and seeds the state
\* with L; the save issued by the selection itself (the reset to an empty
\* list under the new key) does not replace L in the store before the read.
C11_SelectionKeepsStoredLines ==
    \A key \in VideoKeys :
        store[key].found =>
            LET selected == saveEffect(St, onFileChange(St, key))
                issued == saveEffect(selected, handleLoaded(selected))
                seeded == loadResolved(issued, issued.loadRead)
            IN  /\ selected.store[key] = store[key]
                /\ issued.loadRead = store[key]
                /\ seeded.lines = Seeded(store[key])

\* a pointer event of the primary button whose target is the drawing surface
Primary(event) == event.button # 2 /\ ~event.onControl

\* the stack after exactly one push of the entry
PushedOnce(stack, entry) ==
    IF Len(stack) < HISTORY_LIMIT THEN stack \o <<entry>>
    ELSE Tail(stack) \o <<entry>>

\* C12: in draw mode with no selection, a PointerDown at an in-bounds point a
\* that hits no line starts a draft with p1 = p2 = a and changes neither the
\* lines nor the history; each PointerMove to an in-bounds point b sets the
\* draft's p2 to b and leaves p1 = a; the following PointerUp appends exactly
\* one line with p1 = a and p2 = the last such b, selects it, clears the
\* draft and pushes exactly one Add entry for it.
C12_DraftGesture ==
    LET Committed(u, l) ==
            /\ u.lines = lines \o <<l>>
            /\ u.selectedId = l.id
            /\ u.draftLine = Null
            /\ u.history = PushedOnce(history, [type |-> "add", line |-> l])
        \* m is a drafting state with the draft `draft', lines and History
        \* as in the state, and PointerUp commits that draft
        Drafting(m, draft) ==
            /\ m.draftLine = draft
            /\ m.lines = lines
            /\ m.history = history
            /\ \A u \in {handlePointerUp(m)} : Committed(u, draft)
        \* every PointerMove to an in-bounds point from the drafting state m
        \* sets p2 and nothing else
        Moves(m) ==
            \A move \in PointerEvents :
                \A b \in {toNormalizedPoint(move, videoBounds)} :
                    b # Null =>
                        \A n \in {handlePointerMove(m, move)} :
                            Drafting(n, [m.draftLine EXCEPT !.p2 = b])
    IN  /\ (appMode = "draw" /\ selectedId = NoId) =>
              \A down \in PointerEvents :
                  \A a \in {toNormalizedPoint(down, videoBounds)} :
                      (/\ Primary(down)
                       /\ a # Null
                       /\ findHit(a, lines, videoBounds).line = Null) =>
                      \A d \in {handleMainPointerDown(St, down)} :
                          /\ d.draftLine # Null
                          /\ d.draftLine.p1 = a
                          /\ d.draftLine.p2 = a
                          /\ Drafting(d, d.draftLine)
                          /\ Moves(d)
        /\ (appMode = "draw" /\ draftLine # Null) => Moves(St)

\* a drafted line with distinct endpoints has just been committed behind
\* another line
C12_Witness ==
    /\ lastOp = "up_commit"
    /\ Len(lines) >= 2
    /\ Last(lines).p1 # Last(lines).p2
    /\ selectedId = Last(lines).id
    /\ draftLine = Null
    /\ Last(history) = [type |-> "add", line |-> Last(lines)]

\* C13: a PointerDown that hits an existing line never creates a draft: it
\* selects that line and opens a drag session of the hit type with a before
\* snapshot of the line; for a p1 (resp. p2) handle hit, a PointerMove to an
\* in-bounds point q different from the original endpoint followed by
\* PointerUp pushes exactly one Update entry whose before is the original
\* line and whose after has that endpoint equal to q and the other endpoint
\* unchanged.
C13_HandleDragGesture ==
    appMode = "draw" =>
        \A down \in PointerEvents :
            LET a == toNormalizedPoint(down, videoBounds)
                hit == findHit(a, lines, videoBounds)
            IN  (Primary(down) /\ a # Null /\ hit.line # Null) =>
                LET d == handleMainPointerDown(St, down)
                IN  /\ d.draftLine = draftLine
                    /\ d.selectedId = hit.line.id
                    /\ d.editSession # Null
                    /\ d.editSession.type = hit.target
                    /\ d.editSession.before = hit.line
                    /\ d.editSession.id = hit.line.id
                    /\ \A move \in PointerEvents :
                          LET q == toNormalizedPoint(move, videoBounds)
                              u == handlePointerUp(handlePointerMove(d, move))
                              entry == [type |-> "update", before |-> hit.line,
                                        after |-> IF hit.target = "p1"
                                                  THEN [hit.line EXCEPT !.p1 = q]
                                                  ELSE [hit.line EXCEPT !.p2 = q]]
                          IN  (/\ q # Null
                               /\ hit.target \in {"p1", "p2"}
                               /\ q # (IF hit.target = "p1" THEN hit.line.p1
                                       ELSE hit.line.p2)) =>
                                   u.history = PushedOnce(history, entry)

\* the same gesture when no draft is in progress at the PointerDown
HandleDragGestureWithoutDraft ==
    draftLine = Null => C13_HandleDragGesture

\* C14: DeleteSelected, when the selection is the id of a line in the list,
\* removes exactly that line (every list entry with the selected id, and no
\* other), pushes exactly one Delete entry holding that line, clears the Redo
\* stack and sets the selection to none; all other lines keep their
\* coordinates and relative order.
C14_DeleteRemovesSelected ==
    (selectedId # NoId /\ HasId(lines, selectedId)) =>
        \A r \in {deleteSelected(St)} :
            LET l == lines[FindById(lines, selectedId)]
            IN  /\ ~HasId(r.lines, selectedId)
                /\ r.lines = SelectSeq(lines, LAMBDA x : x.id # selectedId)
                /\ r.history = PushedOnce(history, [type |-> "delete", line |-> l])
                /\ r.redoStack = <<>>
                /\ r.selectedId = NoId

\* a Delete has removed one of several lines while the Redo stack held an
\* entry
C14_Witness ==
    /\ lastOp = "delete"
    /\ redoCleared
    /\ lines # <<>>
    /\ Last(history).type = "delete"
    /\ ~HasId(lines, Last(history).line.id)
    /\ selectedId = NoId

\* lines, draft, selection and both stacks of s are those of the state
Untouched(s) ==
    /\ s.lines = lines
    /\ s.draftLine = draftLine
    /\ s.selectedId = selectedId
    /\ s.history = history
    /\ s.redoStack = redoStack

\* C15: Undo with an empty History stack, Redo with an empty Redo stack, and
\* DeleteSelected with no selection or with a selection id that is not in the
\* list each leave the line list, draft, selection, History stack and Redo
\* stack exactly as they were.
C15_NoOpsChangeNothing ==
    /\ history = <<>> => Untouched(handleUndo(St))
    /\ redoStack = <<>> => Untouched(handleRedo(St))
    /\ (selectedId = NoId \/ ~HasId(lines, selectedId)) =>
          /\ Untouched(deleteSelected(St))
          /\ Untouched(handleKeyDown(St, "Delete", "BODY"))

\* DeleteSelected has just been issued with a selection that is not in the
\* list
C15_Witness ==
    /\ lastOp = "delete_noop"
    /\ selectedId # NoId
    /\ ~HasId(lines, selectedId)
    /\ redoStack # <<>>

\* the lists Reset is called with: the empty list and a stored list
ResetInputs == {Seeded(saved) : saved \in LoadResults}

\* C16: after Reset(newLines) from any reachable state, including one with a
\* draft in progress, an active drag session, a selection and non-empty
\* stacks, the line list equals newLines, the draft is null, the selection is
\* none, the History and Redo stacks are empty and the drag session is null.
C16_ResetClearsAll ==
    \A newLines \in ResetInputs \cup {lines} :
        \A r \in {resetDrawing(St, newLines)} :
            /\ r.lines = newLines
            /\ r.draftLine = Null
            /\ r.selectedId = NoId
            /\ r.history = <<>>
            /\ r.redoStack = <<>>
            /\ r.editSession = Null

\* a Reset has just discarded a gesture in progress, a selection and a
\* non-empty History stack
C16_Witness ==
    /\ lastOp = "reset_busy"
    /\ draftLine = Null
    /\ editSession = Null
    /\ selectedId = NoId
    /\ history = <<>>

\* C17: ClearInteraction sets the draft, the selection and the drag session
\* to none and leaves the committed line list, the History stack and the
\* Redo stack unchanged; a draft in progress is discarded without being
\* committed and without a History entry.
C17_ClearInteractionKeepsLines ==
    \A c \in {clearInteraction(St)} :
        /\ c.draftLine = Null
        /\ c.selectedId = NoId
        /\ c.editSession = Null
        /\ c.lines = lines
        /\ c.history = history
        /\ c.redoStack = redoStack

\* leaving draw mode has just discarded a draft while lines and History
\* entries existed
C17_Witness ==
    /\ lastOp = "clear_draft"
    /\ draftLine = Null
    /\ lines # <<>>
    /\ history # <<>>

\* C18: while the application mode is playback, PointerDown, PointerMove and
\* PointerUp leave the line list, draft, selection, drag session, History
\* stack and Redo stack unchanged.
C18_PlaybackIgnoresPointer ==
    appMode = "playback" =>
        /\ \A u \in {handlePointerUp(St)} :
              Untouched(u) /\ u.editSession = editSession
        /\ \A event \in PointerEvents :
              /\ \A d \in {handleMainPointerDown(St, event)} :
                    Untouched(d) /\ d.editSession = editSession
              /\ \A d \in {handlePointerDown(St, event)} :
                    Untouched(d) /\ d.editSession = editSession
              /\ \A m \in {handlePointerMove(St, event)} :
                    Untouched(m) /\ m.editSession = editSession

\* a PointerDown has just been handled in playback mode, over a loaded video
\* with a line drawn on it
C18_Witness ==
    /\ lastOp = "down_playback"
    /\ appMode = "playback"
    /\ videoBounds # Null
    /\ lines # <<>>
    /\ history # <<>>

\* C19: the coordinate mapper returns no point exactly when the video bounds
\* are null or the container-local pointer position lies strictly outside
\* the bounds rectangle (positions on the edge are accepted); otherwise it
\* returns ((localX - bounds.x) / bounds.width,
\* (localY - bounds.y) / bounds.height), both within [0, 1].
C19_MapperContract ==
    (probe.kind = "map" /\ answer # NoAnswer) =>
        LET b == probe.bounds
            localX == probe.event.clientX - ContainerRect.left
            localY == probe.event.clientY - ContainerRect.top
            outside == \/ localX < b.x
                       \/ localX > b.x + b.width
                       \/ localY < b.y
                       \/ localY > b.y + b.height
        IN  /\ answer = Null <=> (b = Null \/ outside)
            /\ answer # Null =>
                  /\ answer.x * b.width = (localX - b.x) * Unit
                  /\ answer.y * b.height = (localY - b.y) * Unit
                  /\ answer.x \in 0..Unit
                  /\ answer.y \in 0..Unit

\* a position on the right and bottom edges has been mapped to (1, 1)
C19_Witness ==
    /\ probe.kind = "map"
    /\ probe.bounds # Null
    /\ probe.event.clientX - ContainerRect.left = probe.bounds.x + probe.bounds.width
    /\ probe.event.clientY - ContainerRect.top = probe.bounds.y + probe.bounds.height
    /\ answer = [x |-> Unit, y |-> Unit]

\* the point is within the handle radius of q, in pixels
WithinHandleRadius(point, q, b) ==
    LET dx == (point.x * b.width - q.x * b.width) \div Unit
        dy == (point.y * b.height - q.y * b.height) \div Unit
    IN  dx * dx + dy * dy < HANDLE_HIT_RADIUS * HANDLE_HIT_RADIUS

\* C20: hit testing gives endpoint handles priority over line bodies and
\* resolves ties by list order: if the point is within the handle radius of
\* an endpoint of any line, the result is the first such line in list order,
\* with target p1 when the point is within the radius of that line's p1 and
\* p2 otherwise, even when an earlier line's body lies within the line-hit
\* threshold of the point.
C20_HandlesBeforeBodies ==
    (probe.kind = "hit" /\ answer # NoAnswer /\ probe.bounds # Null) =>
        LET b == probe.bounds
            ls == probe.lines
            Near(i) == \/ WithinHandleRadius(probe.point, ls[i].p1, b)
                       \/ WithinHandleRadius(probe.point, ls[i].p2, b)
        IN  \A i \in 1..Len(ls) :
                (Near(i) /\ \A j \in 1..(i - 1) : ~Near(j)) =>
                    /\ answer.line = ls[i]
                    /\ answer.target =
                          IF WithinHandleRadius(probe.point, ls[i].p1, b)
                          THEN "p1" ELSE "p2"

\* the p2 handle of the second line has won over the body of the first
\* line, which passes through the point
C20_Witness ==
    /\ probe.kind = "hit"
    /\ probe.bounds # Null
    /\ Len(probe.lines) = 2
    /\ BodyHit(probe.point, probe.lines[1], probe.bounds)
    /\ answer # NoAnswer
    /\ answer.line = probe.lines[2]
    /\ answer.target = "p2"

InUnit(p) == p.x \in 0..Unit /\ p.y \in 0..Unit

\* C21: in every reachable state every endpoint of every committed line and
\* of the draft line has both coordinates within [0, 1] (the lists passed to
\* Reset satisfying this); no sequence of draft moves, handle drags or move
\* drags takes an endpoint outside the unit square.
C21_EndpointsInUnitSquare ==
    /\ \A i \in 1..Len(lines) : InUnit(lines[i].p1) /\ InUnit(lines[i].p2)
    /\ draftLine # Null => InUnit(draftLine.p1) /\ InUnit(draftLine.p2)

\* a move drag has pushed an endpoint against the edge of the unit square:
\* the dragged line is shorter than its before snapshot
C21_Witness ==
    /\ editSession # Null
    /\ editSession.type = "move"
    /\ \E i \in 1..Len(lines) :
          /\ lines[i].id = editSession.id
          /\ lines[i].p2.x = Unit
          /\ lines[i].p2.x - lines[i].p1.x
                < editSession.before.p2.x - editSession.before.p1.x

\* C22: clampPoint is idempotent, clampPoint(clampPoint(p)) = clampPoint(p)
\* for every point p, and it returns p unchanged for every p whose two
\* coordinates are already within [0, 1].
C22_ClampIdempotent ==
    (probe.kind = "clamp" /\ answer # NoAnswer) =>
        /\ clampPoint(answer) = answer
        /\ InUnit(probe.point) => answer = probe.point

\* a point outside the unit square on both axes has been clamped to a corner
C22_Witness ==
    /\ probe.kind = "clamp"
    /\ probe.point.x > Unit
    /\ probe.point.y < 0
    /\ answer = [x |-> Unit, y |-> 0]

\* C23: a load that resolves after the user has already committed a line
\* (the line was committed after the load was requested) is still applied:
\* the line list becomes the loaded list (the empty list when nothing was
\* read), and the interim line, the selection, the draft, the drag session
\* and both stacks are discarded.
C23_LateLoadApplied ==
    (loadPending = "load" /\ EditedSinceRead(St)) =>
        \A saved \in {loadRead, NotStored} :
            \A r \in {loadResolved(St, saved)} :
                /\ r.lines = (IF saved.found THEN saved.lines ELSE <<>>)
                /\ \A i \in 1..Len(lines) :
                      (\A j \in 1..Len(loadRead.lines) :
                          loadRead.lines[j].id # lines[i].id)
                        => \A k \in 1..Len(r.lines) : r.lines[k].id # lines[i].id
                /\ r.selectedId = NoId
                /\ r.draftLine = Null
                /\ r.editSession = Null
                /\ r.history = <<>>
                /\ r.redoStack = <<>>
                /\ r.loadPending = "none"

\* the load has resolved over a line committed in the meantime
C23_Witness ==
    /\ lastOp = "reset_late"
    /\ loadPending = "none"
    /\ nextId > 1
    /\ history = <<>>
    /\ selectedId = NoId

\* C24: a failing persistence read or write never changes the in-memory
\* state: when a load or a save fails, the line list, selection, draft and
\* both stacks are the same as before the failure was reported, and no error
\* reaches the caller.
C24_FailureKeepsState ==
    /\ loadPending = "load" => Untouched(loadResolved(St, loadDrawingFailed))
    /\ videoKey # NoKey => Untouched(saveDrawingFailed(St, videoKey, lines))

\* C25: with a line selected, the Delete key and the Backspace key each do
\* what DeleteSelected does, unless the focused element is an INPUT, a
\* TEXTAREA or a SELECT, in which case the key press changes nothing.
C25_DeleteAndBackspace ==
    (selectedId # NoId /\ \E i \in 1..Len(lines) : lines[i].id = selectedId) =>
        \A key \in {"Delete", "Backspace"} :
            /\ handleKeyDown(St, key, "BODY") = deleteSelected(St)
            /\ \A tag \in {"INPUT", "TEXTAREA", "SELECT"} :
                  handleKeyDown(St, key, tag) = St

\* C27: after every PointerUp in draw mode the drag session is null, whether
\* the PointerUp committed a draft, ended a drag, or found neither.
C27_PointerUpClearsSession ==
    appMode = "draw" => handlePointerUp(St).editSession = Null

\* C28: a PointerDown in draw mode that hits no line while a line is selected
\* sets the selection to none and the drag session to null and starts no
\* draft; a draft is started only when no line is hit, the point resolves
\* and nothing is selected.
C28_DeselectBeforeDraft ==
    (appMode = "draw" /\ videoUrl) =>
        \A event \in PointerEvents :
            \A d \in {handleMainPointerDown(St, event)} :
                LET point == toNormalizedPoint(event, videoBounds)
                    missed == \/ point = Null
                              \/ findHit(point, lines, videoBounds).line = Null
                IN  /\ (Primary(event) /\ selectedId # NoId /\ missed) =>
                          /\ d.selectedId = NoId
                          /\ d.editSession = Null
                          /\ d.draftLine = draftLine
                          /\ d.nextId = nextId
                          /\ d.lines = lines
                          /\ d.history = history
                          /\ d.redoStack = redoStack
                    /\ d.draftLine # draftLine =>
                          /\ Primary(event)
                          /\ missed
                          /\ point # Null
                          /\ selectedId = NoId
                          /\ d.draftLine = [id |-> nextId, p1 |-> point, p2 |-> point]

\* a press on an empty point has cleared the selection of a line that is
\* still in the list, and no draft has started
C28_Witness ==
    /\ lastOp = "down_deselect"
    /\ lines # <<>>
    /\ videoBounds # Null
    /\ selectedId = NoId
    /\ editSession = Null
    /\ draftLine = Null

\* C29: a PointerMove whose position resolves to no point changes nothing:
\* while drafting the draft's p2 is unchanged, while dragging the dragged
\* line and lastPointer are unchanged; a PointerMove with neither a draft nor
\* a drag session leaves all state unchanged.
C29_MoveWithoutPoint ==
    \A event \in PointerEvents :
        (\/ toNormalizedPoint(event, videoBounds) = Null
         \/ draftLine = Null /\ editSession = Null) =>
            \A m \in {handlePointerMove(St, event)} :
                /\ m.draftLine = draftLine
                /\ m.editSession = editSession
                /\ [m EXCEPT !.lastOp = "other"] = St

\* the pointer has left the video during a drag and the session is as it was
C29_Witness ==
    /\ lastOp = "move_nopoint"
    /\ draftLine = Null
    /\ editSession # Null
    /\ \E i \in 1..Len(lines) : lines[i].id = editSession.id

Plus(p, q, r) == [x |-> p.x + q.x - r.x, y |-> p.y + q.y - r.y]

\* C30: during a move-type drag each PointerMove to an in-bounds point q
\* shifts both endpoints of the dragged line by q - lastPointer, clamps each
\* endpoint independently into the unit square and sets lastPointer to q
\* (so p2 - p1 is unchanged when neither endpoint is clamped); all other
\* lines are unchanged.
C30_MoveDrag ==
    (/\ appMode = "draw"
     /\ editSession # Null
     /\ editSession.type = "move"
     /\ FindById(lines, editSession.id) # 0) =>
        \A event \in PointerEvents :
            \A q \in {toNormalizedPoint(event, videoBounds)} \ {Null} :
                \A m \in {handlePointerMove(St, event)} :
                    LET k == FindById(lines, editSession.id)
                        p1 == Plus(lines[k].p1, q, editSession.lastPointer)
                        p2 == Plus(lines[k].p2, q, editSession.lastPointer)
                    IN  /\ Len(m.lines) = Len(lines)
                        /\ m.lines[k] = [lines[k] EXCEPT !.p1 = clampPoint(p1),
                                                         !.p2 = clampPoint(p2)]
                        /\ (InUnit(p1) /\ InUnit(p2)) =>
                              /\ m.lines[k].p2.x - m.lines[k].p1.x
                                    = lines[k].p2.x - lines[k].p1.x
                              /\ m.lines[k].p2.y - m.lines[k].p1.y
                                    = lines[k].p2.y - lines[k].p1.y
                        /\ m.editSession # Null
                        /\ m.editSession.lastPointer = q
                        /\ \A i \in 1..Len(lines) : i # k => m.lines[i] = lines[i]

\* the same PointerMove when no draft is in progress
MoveDragWithoutDraft ==
    draftLine = Null => C30_MoveDrag

\* what the store holds under a key after a put of the list
Stored(ls) == [found |-> TRUE, lines |-> ls]

\* the render of this step has a key and a line list other than before
LinesChange == videoKey' # NoKey /\ lines' # lines

\* the step ends with a put of the full new list under the key in flight
SaveIssued == writes' = Append(writes, [key |-> videoKey', lines |-> lines'])

\* C26: whenever the committed line list changes while a video key is set, a
\* save of the full current list under that key is issued; no save is issued
\* while the video key is null; whenever no write is pending the list stored
\* under the current key equals the in-memory list; and once no further
\* changes occur and the pending writes have completed, the stored list
\* equals the in-memory list for good (the last write wins).
C26_SaveFollowsChange ==
    /\ [][LinesChange => SaveIssued]_vars
    /\ [][videoKey' = NoKey => writes' = writes /\ store' = store]_vars
    /\ [](videoKey # NoKey /\ writes = <<>> => store[videoKey] = Stored(lines))
    /\ <>[][lines' = lines /\ videoKey' = videoKey]_vars
          => <>[](videoKey # NoKey => store[videoKey] = Stored(lines))

\* the puts issued up to the commit of a line have all completed and the
\* store holds the list with that line
C26_Witness ==
    /\ queued
    /\ videoKey # NoKey
    /\ writes = <<>>
    /\ lines # <<>>
    /\ lastOp = "up_commit"
    /\ store[videoKey] = Stored(lines)

\* C31: when the point is within the handle radius of no endpoint of any
\* line, hit testing returns the first line in list order whose body is
\* within the line-hit threshold of the point, with target move; when there
\* is no such line, or the video bounds are null, it returns no line and no
\* target.
C31_BodyHitFirstInOrder ==
    (probe.kind = "hit" /\ answer # NoAnswer) =>
        LET b == probe.bounds
            ls == probe.lines
            Near(i) == \/ WithinHandleRadius(probe.point, ls[i].p1, b)
                       \/ WithinHandleRadius(probe.point, ls[i].p2, b)
            OnBody(i) == distanceToSegmentBelow(probe.point, ls[i].p1, ls[i].p2,
                                                b.width, b.height, LINE_HIT_THRESHOLD)
        IN  IF b = Null
            THEN answer = [line |-> Null, target |-> NoTarget]
            ELSE (\A i \in 1..Len(ls) : ~Near(i)) =>
                    /\ \A i \in 1..Len(ls) :
                          (OnBody(i) /\ \A j \in 1..(i - 1) : ~OnBody(j)) =>
                              answer = [line |-> ls[i], target |-> "move"]
                    /\ (\A i \in 1..Len(ls) : ~OnBody(i)) =>
                          answer = [line |-> Null, target |-> NoTarget]

\* the bodies of both lines pass through the point, away from every handle,
\* and the first line is returned with target move
C31_Witness ==
    /\ probe.kind = "hit"
    /\ probe.bounds # Null
    /\ Len(probe.lines) = 2
    /\ BodyHit(probe.point, probe.lines[1], probe.bounds)
    /\ BodyHit(probe.point, probe.lines[2], probe.bounds)
    /\ answer = [line |-> probe.lines[1], target |-> "move"]

\* (p - a) . (b - a) in pixels
PixelDot(p, a, b, width, height) ==
    (Px(p.x, width) - Px(a.x, width)) * (Px(b.x, width) - Px(a.x, width))
        + (Px(p.y, height) - Px(a.y, height)) * (Px(b.y, height) - Px(a.y, height))

\* C32: distanceToSegment never measures to the extension of the segment:
\* when the projection of p falls before a or after b the result is the
\* pixel distance from p to the nearer endpoint, and for a zero-length
\* segment (a = b) it is the pixel distance from p to a; there is no
\* division by zero.
C32_SegmentNotExtended ==
    (probe.kind = "dist" /\ answer # NoAnswer) =>
        LET w == probe.bounds.width
            h == probe.bounds.height
            toA == PixelDistSq(probe.point, probe.a, w, h)
            toB == PixelDistSq(probe.point, probe.b, w, h)
            dot == PixelDot(probe.point, probe.a, probe.b, w, h)
            lenSq == PixelDistSq(probe.a, probe.b, w, h)
        IN  /\ answer.den > 0
            /\ probe.a = probe.b => answer.num = toA * answer.den
            /\ (probe.a # probe.b /\ dot <= 0) =>
                  /\ answer.num = toA * answer.den
                  /\ toA <= toB
            /\ (probe.a # probe.b /\ dot >= lenSq) =>
                  /\ answer.num = toB * answer.den
                  /\ toB <= toA
            /\ answer.num <= toA * answer.den
            /\ answer.num <= toB * answer.den

\* p projects beyond b on a segment of positive length and the result is
\* its distance to b
C32_Witness ==
    /\ probe.kind = "dist"
    /\ probe.a # probe.b
    /\ PixelDot(probe.point, probe.a, probe.b, probe.bounds.width, probe.bounds.height)
          > PixelDistSq(probe.a, probe.b, probe.bounds.width, probe.bounds.height)
    /\ answer # NoAnswer
    /\ answer.num > 0
    /\ answer.num = PixelDistSq(probe.point, probe.b, probe.bounds.width,
                                 probe.bounds.height) * answer.den

\* Undo applied until the History stack is empty
RECURSIVE UndoAll(_)
UndoAll(s) == IF s.history = <<>> THEN s ELSE UndoAll(handleUndo(s))

\* the list holds exactly the lines of base, each once, as they are in base
SameLines(ls, base) ==
    /\ Len(ls) = Len(base)
    /\ \A k \in 1..Len(base) :
          Cardinality({i \in 1..Len(ls) : ls[i] = base[k]}) = 1

\* C33: after Reset(L0), for any sequence of pointer gestures,
\* DeleteSelected, Undo and Redo during which no History entry was evicted
\* at the cap, applying Undo until the History stack is empty leaves a line
\* list that contains exactly the lines of L0, each once with its original
\* coordinates.
C33_UndoAllRestoresBase ==
    NoGesture => SameLines(UndoAll(St).lines, L0)

\* C34: whenever neither a draft nor a drag session is in progress, the top
\* entry of the History stack agrees with the line list: if it is Add(l), a
\* line with l.id is in the list; if it is Delete(l), no line with l.id is
\* in the list; if it is Update(before, after), the list's line with
\* after.id has after's endpoints.
C34_TopEntryAgreesWithList ==
    (NoGesture /\ history # <<>>) =>
        \A top \in {Last(history)} :
            /\ top.type = "add" => HasId(lines, top.line.id)
            /\ top.type = "delete" => ~HasId(lines, top.line.id)
            /\ top.type = "update" =>
                  /\ HasId(lines, top.after.id)
                  /\ \A i \in 1..Len(lines) :
                        lines[i].id = top.after.id => SameCoords(lines[i], top.after)

C36_PlaybackHasNoInteraction ==
    appMode = "playback" =>
        /\ draftLine = Null
        /\ selectedId = NoId
        /\ editSession = Null

\* playback mode after a line was committed in draw mode, which selected it
C36_Witness ==
    /\ appMode = "playback"
    /\ lines # <<>>
    /\ history # <<>>
    /\ Last(history).type = "add"
    /\ selectedId = NoId

\* C38: a tap creates a line: in draw mode with no selection, a PointerDown
\* at an in-bounds point a that hits no line followed directly by PointerUp,
\* with no PointerMove in between, commits a zero-length line with
\* p1 = p2 = a, selects it and pushes one Add entry.
C38_TapCreatesLine ==
    (appMode = "draw" /\ selectedId = NoId) =>
        \A down \in PointerEvents :
            \A a \in {toNormalizedPoint(down, videoBounds)} :
                (/\ Primary(down)
                 /\ a # Null
                 /\ findHit(a, lines, videoBounds).line = Null) =>
                \A u \in {handlePointerUp(handleMainPointerDown(St, down))} :
                    /\ Len(u.lines) = Len(lines) + 1
                    /\ SubSeq(u.lines, 1, Len(lines)) = lines
                    /\ Last(u.lines).p1 = a
                    /\ Last(u.lines).p2 = a
                    /\ u.selectedId = Last(u.lines).id
                    /\ u.draftLine = Null
                    /\ u.history = PushedOnce(history, [type |-> "add", line |-> Last(u.lines)])

\* the first two events on the drawing surface were a PointerDown and a
\* PointerUp, and they committed a zero-length line
C38_Witness ==
    /\ steps = 2
    /\ lastOp = "up_commit"
    /\ Len(lines) = 1
    /\ lines[1].p1 = lines[1].p2
    /\ selectedId = lines[1].id
    /\ history = <<[type |-> "add", line |-> lines[1]]>>

\* C37: the video is never playing while the application is in draw mode:
\* entering draw mode pauses the video, and every operation that starts
\* playback first switches the application to playback mode.
C37_NotPlayingInDrawMode == appMode = "draw" => ~playing

\* draw mode entered by the toggle while the video was playing
C37_Witness ==
    /\ appMode = "draw"
    /\ lastOp = "draw_paused"
    /\ ~playing

====
